---- MODULE Spec2Model ----
(***************************************************************************)
(* A model of the HTTP orchestration layer of src/application/             *)
(* main_server.py: the token dependency, the request-logging middleware,   *)
(* the routes registered by APIServer.setup_routes, the shared handler     *)
(* bodies (handle_search, handle_detail, handle_account, handle_live), the *)
(* two envelope constructors and the two validators.                       *)
(*                                                                         *)
(* Python values are encoded as follows.  A string-valued field is a TLA+  *)
(* string, with None standing for Python's None.  The tri-state first      *)
(* component of generate_mix_params is PyTrue, PyFalse or None.  A payload *)
(* (what the extraction engine returns, and what an envelope carries as    *)
(* data) is a record [t, v]: t is "none", "rec" (one record), "list" (a    *)
(* list of records) or "fault" (the call raised); v is the sequence of the *)
(* list's elements (one element for "rec", none for "none" and "fault").   *)
(***************************************************************************)
EXTENDS Integers, Sequences, FiniteSets, TLC

\* ------------------------------------------------------------------ bounds

\* The longest list the extraction engine returns in the model.
MaxListLen == 2

\* ------------------------------------------------------------ Python values

None == "None"
PyTrue == "True"
PyFalse == "False"

\* An empty dict: a record that is falsy in Python.
EmptyRec == "{}"

NoneV == [t |-> "none", v |-> <<>>]
FaultV == [t |-> "fault", v |-> <<>>]
RecV(e) == [t |-> "rec", v |-> <<e>>]
ListV(l) == [t |-> "list", v |-> l]

\* bool(x) of a string-or-None field: None and "" are falsy.
TruthyStr(s) == s \notin {None, ""}

\* bool(e) of a list element: None, the empty dict and the empty string are falsy.
TruthyElem(e) == e \notin {None, EmptyRec, ""}

\* bool(x) of a payload, as "if data := ..." evaluates it.
Truthy(x) ==
    CASE x.t = "none" -> FALSE
      [] x.t = "rec" -> TruthyElem(x.v[1])
      [] x.t = "list" -> Len(x.v) > 0
      [] OTHER -> FALSE

\* any(data) of a list payload.
PyAny(x) == \E i \in 1..Len(x.v) : TruthyElem(x.v[i])

\* data[0] of a non-empty list payload.
First(x) == IF x.v[1] = None THEN NoneV ELSE RecV(x.v[1])

\* ---------------------------------------------------------------- messages

MSG_SUCCESS == "success"
MSG_FAILED == "failed"
MSG_EMPTY == "empty result"
MSG_PARAM == "parameters invalid"
MSG_VERIFIED == "verified"
MSG_AUTH == "authentication failed"
MSG_URL_OK == "link resolved"
MSG_URL_FAILED == "link failed"

\* ------------------------------------------------------------------ routes

SearchRoutes ==
    {"POST /douyin/search/general", "POST /douyin/search/video",
     "POST /douyin/search/user", "POST /douyin/search/live"}

ShareRoutes == {"POST /douyin/share", "POST /tiktok/share"}
DetailRoutes == {"POST /douyin/detail", "POST /tiktok/detail"}
AccountRoutes == {"POST /douyin/account", "POST /tiktok/account"}
MixRoutes == {"POST /douyin/mix", "POST /tiktok/mix"}
LiveRoutes == {"POST /douyin/live", "POST /tiktok/live"}
CommentRoutes == {"POST /douyin/comment", "POST /douyin/reply"}
SettingsRoutes == {"POST /settings", "GET /settings"}

\* The routes that call the extraction engine.
BusinessRoutes ==
    ShareRoutes \cup DetailRoutes \cup AccountRoutes \cup MixRoutes
        \cup LiveRoutes \cup CommentRoutes \cup SearchRoutes

\* Every route setup_routes registers.
Routes == {"GET /", "GET /token"} \cup SettingsRoutes \cup BusinessRoutes

\* The routes whose handler declares token: str = Depends(token_dependency).
Gated(route) == route \in ({"GET /token"} \cup SettingsRoutes \cup BusinessRoutes)

\* The platform flag a route passes to the shared handler body.
IsTikTok(route) ==
    route \in {"POST /tiktok/share", "POST /tiktok/detail", "POST /tiktok/account",
               "POST /tiktok/mix", "POST /tiktok/live"}

\* request.method, as the middleware reads it.
Method(route) == IF route \in {"GET /", "GET /token", "GET /settings"} THEN "GET" ELSE "POST"

\* ---------------------------------------------------------------- requests

\* The credential header: absent, or one of two strings.
Tokens == {None, "secret", "guess"}

\* Identifier strings a client may send: empty or not.
Ids == {"", "123", "456"}
OptIds == {None} \cup Ids

\* cursor/count and cookie/proxy of a request: the defaults, or all four set.
ReqOpts ==
    {[cursor |-> 0, count |-> 18, cookie |-> None, proxy |-> None],
     [cursor |-> 7, count |-> 5, cookie |-> "ck", proxy |-> "px"]}

\* The settings document's keys and values.
SettingsKeys == {"cookie", "cookie_tiktok"}
SettingsVals == {"a", "b"}
SettingsDocs == [SettingsKeys -> SettingsVals]
\* A Settings request body: every field optional, None when not sent.
SettingsUpdates == [SettingsKeys -> SettingsVals \cup {None}]
NoUpdate == [k \in SettingsKeys |-> None]

\* A request body with every field at its absent value.
EmptyBody ==
    [text |-> None, detail_id |-> None, sec_user_id |-> None, mix_id |-> None,
     web_rid |-> None, room_id |-> None, comment_id |-> None, keyword |-> None,
     source |-> FALSE, cursor |-> 0, count |-> 18, cookie |-> None, proxy |-> None,
     upd |-> NoUpdate]

WithOpts(b, o) ==
    [b EXCEPT !.cursor = o.cursor, !.count = o.count, !.cookie = o.cookie,
              !.proxy = o.proxy]

\* The schema-valid bodies of a route (the schema binding of the framework has
\* accepted them): required identifiers are present, optional ones may be absent.
Bodies(route) ==
    CASE route \in {"GET /", "GET /token", "GET /settings"} -> {EmptyBody}
      [] route = "POST /settings" ->
            {[EmptyBody EXCEPT !.upd = u] : u \in SettingsUpdates}
      [] route \in ShareRoutes ->
            {[EmptyBody EXCEPT !.text = "123", !.proxy = o.proxy] : o \in ReqOpts}
      [] route \in DetailRoutes ->
            {[EmptyBody EXCEPT !.detail_id = "123", !.source = s, !.cookie = o.cookie,
                               !.proxy = o.proxy] : s \in BOOLEAN, o \in ReqOpts}
      [] route \in AccountRoutes ->
            {WithOpts([EmptyBody EXCEPT !.sec_user_id = "123", !.source = s], o) :
                s \in BOOLEAN, o \in ReqOpts}
      [] route = "POST /douyin/mix" ->
            {WithOpts([EmptyBody EXCEPT !.mix_id = m, !.detail_id = d, !.source = s], o) :
                m \in OptIds, d \in OptIds, s \in BOOLEAN, o \in ReqOpts}
      [] route = "POST /tiktok/mix" ->
            {WithOpts([EmptyBody EXCEPT !.mix_id = m, !.source = s], o) :
                m \in Ids, s \in BOOLEAN, o \in ReqOpts}
      [] route \in LiveRoutes ->
            {[EmptyBody EXCEPT !.web_rid = w, !.room_id = m, !.source = s,
                               !.cookie = o.cookie, !.proxy = o.proxy] :
                w \in {None, "123"}, m \in {None, "456"}, s \in BOOLEAN, o \in ReqOpts}
      [] route = "POST /douyin/comment" ->
            {WithOpts([EmptyBody EXCEPT !.detail_id = "123", !.source = s], o) :
                s \in BOOLEAN, o \in ReqOpts}
      [] route = "POST /douyin/reply" ->
            {WithOpts([EmptyBody EXCEPT !.detail_id = "123", !.comment_id = "456",
                                        !.source = s], o) :
                s \in BOOLEAN, o \in ReqOpts}
      [] OTHER ->
            {[EmptyBody EXCEPT !.keyword = "123", !.source = s] : s \in BOOLEAN}

\* extract.model_dump(): the request record as a plain mapping, wrapped so that
\* params = None (the empty sequence) and a mapping are comparable.
ModelDump(extract) == <<extract>>
ParamsNone == <<>>

\* --------------------------------------------------------------- responses

\* The response models, with the fields a model lacks at their absent value.
DataResponse(message, d, params) ==
    [kind |-> "DataResponse", status |-> 200, message |-> message, data |-> d,
     params |-> params, url |-> None, doc |-> <<>>]

UrlResponse(message, url, params) ==
    [kind |-> "UrlResponse", status |-> 200, message |-> message, data |-> NoneV,
     params |-> params, url |-> url, doc |-> <<>>]

SettingsResponse(doc) ==
    [kind |-> "Settings", status |-> 200, message |-> None, data |-> NoneV,
     params |-> ParamsNone, url |-> None, doc |-> <<doc>>]

RedirectResponse ==
    [kind |-> "Redirect", status |-> 307, message |-> None, data |-> NoneV,
     params |-> ParamsNone, url |-> "REPOSITORY", doc |-> <<>>]

HTTPException(status_code, detail) ==
    [kind |-> "HTTPException", status |-> status_code, message |-> detail,
     data |-> NoneV, params |-> ParamsNone, url |-> None, doc |-> <<>>]

\* An exception that left the handler: the server answers with a bare 500.
Raised ==
    [kind |-> "Raised", status |-> 500, message |-> None, data |-> NoneV,
     params |-> ParamsNone, url |-> None, doc |-> <<>>]

NoResponse ==
    [kind |-> "None", status |-> 0, message |-> None, data |-> NoneV,
     params |-> ParamsNone, url |-> None, doc |-> <<>>]

\* APIServer.success_response: message or the default.
success_response(extract, d, message) ==
    DataResponse(IF TruthyStr(message) THEN message ELSE MSG_SUCCESS, d,
                 ModelDump(extract))

\* A failed_response that does not echo the request.
failed_response_no_echo(extract, message) ==
    DataResponse(IF TruthyStr(message) THEN message ELSE MSG_FAILED, NoneV, ParamsNone)

\* APIServer.failed_response: message or the default, data = None.
failed_response(extract, message) ==
    DataResponse(IF TruthyStr(message) THEN message ELSE MSG_FAILED, NoneV,
                 ModelDump(extract))

\* -------------------------------------------------------------- validators

\* A generate_mix_params that tests the identifiers against None only.
generate_mix_params_is_not_none(mix_id, detail_id) ==
    IF mix_id # None THEN <<PyTrue, mix_id>>
    ELSE IF detail_id # None THEN <<PyFalse, detail_id>>
    ELSE <<None, None>>

\* A generate_mix_params that looks at detail_id first.
generate_mix_params_detail_first(mix_id, detail_id) ==
    IF TruthyStr(detail_id) THEN <<PyFalse, detail_id>>
    ELSE IF TruthyStr(mix_id) THEN <<PyTrue, mix_id>>
    ELSE <<None, None>>

\* APIServer.generate_mix_params: <<is_mix, id>>.
generate_mix_params(mix_id, detail_id) ==
    IF TruthyStr(mix_id) THEN <<PyTrue, mix_id>>
    ELSE IF TruthyStr(detail_id) THEN <<PyFalse, detail_id>>
    ELSE <<None, None>>

\* isinstance(x, bool)
IsBool(x) == x \in {PyTrue, PyFalse}

\* APIServer.check_live_params: bool(web_rid or room_id and sec_user_id).
check_live_params(web_rid, room_id, sec_user_id) ==
    TruthyStr(web_rid) \/ (TruthyStr(room_id) /\ TruthyStr(sec_user_id))

\* -------------------------------------------------- the extraction engine

\* What a list may hold: an empty record or a real one.
Elems == {EmptyRec, "rec1"}
Lists == UNION {[1..n -> Elems] : n \in 0..MaxListLen}

\* The outcomes of a list-returning operation: None, a list, or a raised fault.
ListResults == {NoneV, FaultV} \cup {ListV(l) : l \in Lists}
\* links.run: a url, an empty string, None, or a raised fault.
ShareResults == {NoneV, FaultV, RecV(""), RecV("https://full")}
\* get_live_data / get_live_data_tiktok: a record, None, or a raised fault.
LiveResults == {NoneV, FaultV, RecV("rec1")}

GwResults(route) ==
    IF route \in ShareRoutes THEN ShareResults
    ELSE IF route \in LiveRoutes THEN LiveResults
    ELSE ListResults

\* The normalized form of a live record.
Normalized(e) == IF e = "rec1" THEN "norm_rec1" ELSE "norm_none"

\* extractor.run([data], None, "live", tiktok=...): the normalized records of a
\* list holding one record; what it makes of [None] is left open.
ExtractorResults(d) ==
    IF d.t = "rec" THEN {ListV(<<Normalized(d.v[1])>>)}
    ELSE {ListV(<<>>), ListV(<<Normalized(None)>>), FaultV}

\* One call of the extraction engine (or of the settings store) and its arguments;
\* an argument the operation does not take is at its absent value.
GwCall(op, ident) ==
    [op |-> op, ident |-> ident, ident2 |-> None, is_mix |-> None, tiktok |-> FALSE,
     source |-> FALSE, cookie |-> None, proxy |-> None, cursor |-> -1, count |-> -1]

SettingsOps == {"set_settings_data", "get_settings_data"}

\* ------------------------------------------------------------------- state

VARIABLES
    pc,         \* pc[r]: where request slot r is in its handling
    req,        \* req[r]: [route, token, body] of the request in slot r
    resp,       \* resp[r]: the response of the handler, then of the server
    calls,      \* calls[r]: the engine and settings calls made for the request
    data,       \* data[r]: the handler's local data, what its awaited call returned
    live_data,  \* live_data[r]: the local data of APIServer.handle_live (the live fetch)
    settings,   \* the settings document of self.parameter
    allow,      \* the configured credential allow-value (None: not configured)
    scope,      \* which routes clients call in this behaviour: "all" or "settings"
    hist,       \* the last settings update and what was answered since (history)
    mw,         \* mw[r]: the locals of log_requests for the request, and its connection
    cookies,    \* update_cookie.py: the cookie list handed to cookies_to_header_format
    platform,   \* update_cookie.py: the platform handed to cookies_to_header_format
    cookie_header   \* update_cookie.py: what cookies_to_header_format returned

vars ==
    <<pc, req, resp, calls, data, live_data, settings, allow, scope, hist, mw,
      cookies, platform, cookie_header>>

\* The locals of the cookie script's main().
cvars == <<cookies, platform, cookie_header>>

\* The request slots of the server, and those in use in a behaviour: the
\* domain of the functions pc, req, resp, calls, data and live_data.
AllSlots == {1, 2}
Slots == DOMAIN pc

\* The request of slot r is at the place l of its handling.
At(r, l) == r \in DOMAIN pc /\ pc[r] = l

\* The operations with one route per platform.
PairedRoutes == DetailRoutes \cup AccountRoutes \cup MixRoutes \cup LiveRoutes

\* The routes clients call under a scope.
ScopeRoutes(sc) ==
    CASE sc \in {"settings", "config"} -> {"GET /token"} \cup SettingsRoutes
      [] sc = "paired" -> PairedRoutes
      [] OTHER -> Routes

\* The credentials clients send under a scope.
ScopeTokens(sc) == IF sc \in {"paired", "config"} THEN {"secret"} ELSE Tokens

\* The bodies clients send to a route under a scope: every schema-valid body,
\* or those with the default options (paired) or one field set (config).
ScopeBodies(sc, route) ==
    CASE sc = "paired" ->
            {b \in Bodies(route) :
                /\ b.cursor = 0
                /\ b.cookie = None
                /\ b.mix_id \in {None, "", "123"}
                /\ b.detail_id \in {None, "123"}
                /\ route \in LiveRoutes => (b.web_rid = "123" /\ b.room_id = "456")}
      [] sc = "config" ->
            {b \in Bodies(route) :
                route = "POST /settings" =>
                    /\ Cardinality({k \in SettingsKeys : b.upd[k] # None}) = 1
                    /\ b.upd["cookie_tiktok"] # "a"}
      [] OTHER -> Bodies(route)

\* The route of the other platform for the same operation.
Twin(route) ==
    CASE route = "POST /douyin/detail" -> "POST /tiktok/detail"
      [] route = "POST /tiktok/detail" -> "POST /douyin/detail"
      [] route = "POST /douyin/account" -> "POST /tiktok/account"
      [] route = "POST /tiktok/account" -> "POST /douyin/account"
      [] route = "POST /douyin/mix" -> "POST /tiktok/mix"
      [] route = "POST /tiktok/mix" -> "POST /douyin/mix"
      [] route = "POST /douyin/live" -> "POST /tiktok/live"
      [] route = "POST /tiktok/live" -> "POST /douyin/live"
      [] OTHER -> route

\* Which requests meet in the server under a scope: in the paired behaviours a
\* request arriving while another is in flight asks for the same item, on the
\* same route or on its twin.
Meets(sc, r, route, body) ==
    sc = "paired" =>
        \A q \in DOMAIN pc \ {r} :
            pc[q] # "idle" =>
                body = req[q].body /\ route \in {req[q].route, Twin(req[q].route)}

\* cookie_header before the conversion has run; text is the header as the
\* sequence of the pieces that make up the string.
NoHeader == [set |-> FALSE, text |-> <<>>]

\* The locals of log_requests for a request that has not arrived.
NoMiddleware ==
    [body_read |-> "none", call_next |-> 0, out |-> NoResponse, closed |-> FALSE,
     sent |-> FALSE]

NoRequest == [route |-> "GET /", token |-> None, body |-> EmptyBody]

\* is_valid_token(token) of src/custom: without a configured value every
\* credential is accepted, otherwise only the configured one.
is_valid_token(token) == allow = None \/ token = allow

InitCommon(slots) ==
    /\ pc = [r \in slots |-> "idle"]
    /\ req = [r \in slots |-> NoRequest]
    /\ resp = [r \in slots |-> NoResponse]
    /\ calls = [r \in slots |-> <<>>]
    /\ data = [r \in slots |-> NoneV]
    /\ live_data = [r \in slots |-> NoneV]
    /\ settings \in SettingsDocs
    /\ allow \in {None, "secret"}
    /\ hist = <<>>
    /\ mw = [r \in slots |-> NoMiddleware]
    /\ cookies = NoneV
    /\ platform = None
    /\ cookie_header = NoHeader

Init == InitCommon({1}) /\ scope = "all"

InitSettings == InitCommon({1}) /\ scope = "settings"

\* ------------------------------------------------- the handlers' decisions

\* parameter.set_settings_data(data): the fields sent (not None) replace the
\* document's, the others stay.
set_settings_data(doc, d) ==
    [k \in SettingsKeys |-> IF d[k] # None THEN d[k] ELSE doc[k]]

\* handle_share / handle_share_tiktok after the await.
handle_share_result(extract, url) ==
    IF Truthy(url) THEN UrlResponse(MSG_URL_OK, url.v[1], ModelDump(extract))
    ELSE UrlResponse(MSG_URL_FAILED, None, ModelDump(extract))

\* APIServer.handle_detail after the await.
handle_detail_result(extract, d) ==
    IF Truthy(d) THEN success_response(extract, First(d), None)
    ELSE failed_response(extract, None)

\* APIServer.handle_account after the await.
handle_account_result(extract, d) ==
    IF Truthy(d) THEN success_response(extract, d, None)
    ELSE failed_response(extract, None)

\* handle_mix / handle_mix_tiktok after the await.
handle_mix_result(extract, d) ==
    IF Truthy(d) THEN success_response(extract, d, None)
    ELSE failed_response(extract, None)

\* handle_comment after the await.
handle_comment_result(extract, d) ==
    IF Truthy(d) THEN success_response(extract, d, None)
    ELSE failed_response(extract, None)

\* handle_reply after the await.
handle_reply_result(extract, d) ==
    IF Truthy(d) THEN success_response(extract, d, None)
    ELSE failed_response(extract, None)

\* A handle_search that tests the list itself instead of any(data).
handle_search_result_truthy(extract, d) ==
    IF d.t = "list"
    THEN IF Truthy(d) THEN success_response(extract, d, None)
         ELSE success_response(extract, NoneV, MSG_EMPTY)
    ELSE failed_response(extract, None)

\* APIServer.handle_search after the await.
handle_search_result(extract, d) ==
    IF d.t = "list"
    THEN IF PyAny(d) THEN success_response(extract, d, None)
         ELSE success_response(extract, NoneV, MSG_EMPTY)
    ELSE failed_response(extract, None)

\* The live routes after APIServer.handle_live returned the list data.
handle_live_result(extract, d) ==
    IF Truthy(d) THEN success_response(extract, First(d), None)
    ELSE failed_response(extract, None)

\* What the handler of a route answers once the engine returned data.
HandlerResult(route, extract, d) ==
    CASE route \in ShareRoutes -> handle_share_result(extract, d)
      [] route \in DetailRoutes -> handle_detail_result(extract, d)
      [] route \in AccountRoutes -> handle_account_result(extract, d)
      [] route \in MixRoutes -> handle_mix_result(extract, d)
      [] route = "POST /douyin/comment" -> handle_comment_result(extract, d)
      [] route = "POST /douyin/reply" -> handle_reply_result(extract, d)
      [] OTHER -> handle_search_result(extract, d)

\* ------------------------------------------------------------------ actions

Invoke(r, c) == calls' = [calls EXCEPT ![r] = Append(@, c)]

\* A client sends a request to a free slot.
Arrive(r) ==
    /\ At(r, "idle")
    /\ \E route \in ScopeRoutes(scope), token \in ScopeTokens(scope) :
         \E body \in ScopeBodies(scope, route) :
            /\ Meets(scope, r, route, body)
            /\ req' = [req EXCEPT ![r] = [route |-> route, token |-> token, body |-> body]]
    /\ pc' = [pc EXCEPT ![r] = "mw"]
    /\ UNCHANGED <<resp, calls, data, live_data, settings, allow, scope, hist, mw, cvars>>

\* call_next(request): the application runs the dependency of a gated route,
\* then the handler.
call_next(r, body_read) ==
    /\ mw' = [mw EXCEPT ![r] = [@ EXCEPT !.body_read = body_read,
                                        !.call_next = @ + 1]]
    /\ pc' = [pc EXCEPT ![r] = IF Gated(req[r].route) THEN "dep" ELSE "handler"]

\* log_requests up to call_next: it logs, reads and previews the body of a
\* POST, and awaits call_next.
log_requests_enter(r) ==
    /\ At(r, "mw")
    /\ call_next(r, IF Method(req[r].route) = "POST" THEN "ok" ELSE "skipped")
    /\ UNCHANGED <<req, resp, calls, data, live_data, settings, allow, scope, hist, cvars>>

\* log_requests up to call_next when request.body() raises: the exception is
\* caught and printed, and call_next is awaited all the same.
log_requests_enter_unread(r) ==
    /\ At(r, "mw")
    /\ Method(req[r].route) = "POST"
    /\ call_next(r, "failed")
    /\ UNCHANGED <<req, resp, calls, data, live_data, settings, allow, scope, hist, cvars>>

\* A token_dependency that checks nothing.
token_dependency_open(r) ==
    /\ At(r, "dep")
    /\ pc' = [pc EXCEPT ![r] = "handler"]
    /\ UNCHANGED <<req, resp, calls, data, live_data, settings, allow, scope, hist, mw, cvars>>

\* token_dependency: raise HTTPException(403) unless the token is valid.
token_dependency(r) ==
    /\ At(r, "dep")
    /\ IF ~is_valid_token(req[r].token)
       THEN /\ resp' = [resp EXCEPT ![r] = HTTPException(403, MSG_AUTH)]
            /\ pc' = [pc EXCEPT ![r] = "exit"]
       ELSE /\ pc' = [pc EXCEPT ![r] = "handler"]
            /\ UNCHANGED resp
    /\ UNCHANGED <<req, calls, data, live_data, settings, allow, scope, hist, mw, cvars>>

Returns(r, response) ==
    /\ resp' = [resp EXCEPT ![r] = response]
    /\ pc' = [pc EXCEPT ![r] = "exit"]

Awaits(r, c) ==
    /\ Invoke(r, c)
    /\ pc' = [pc EXCEPT ![r] = "await"]
    /\ UNCHANGED resp

Handling(r, routes) == At(r, "handler") /\ req[r].route \in routes

index(r) ==
    /\ Handling(r, {"GET /"})
    /\ Returns(r, RedirectResponse)
    /\ UNCHANGED <<req, calls, data, live_data, settings, allow, scope, hist, mw, cvars>>

\* A handle_test that asks the engine before it answers.
handle_test_probing(r) ==
    /\ Handling(r, {"GET /token"})
    /\ Invoke(r, GwCall("deal_search_data", None))
    /\ Returns(r, DataResponse(MSG_VERIFIED, NoneV, ParamsNone))
    /\ UNCHANGED <<req, data, live_data, settings, allow, scope, hist, mw, cvars>>

\* GET /token: the credential passed the dependency, nothing else is done.
handle_test(r) ==
    /\ Handling(r, {"GET /token"})
    /\ Returns(r, DataResponse(MSG_VERIFIED, NoneV, ParamsNone))
    /\ UNCHANGED <<req, calls, data, live_data, settings, allow, scope, hist, mw, cvars>>

\* The history of the settings behaviours is kept only there.
Tracking == scope \in {"settings", "config"}

\* POST /settings up to the await: set_settings_data(extract.model_dump()).
handle_settings(r) ==
    /\ Handling(r, {"POST /settings"})
    /\ settings' = set_settings_data(settings, req[r].body.upd)
    /\ Invoke(r, GwCall("set_settings_data", None))
    /\ pc' = [pc EXCEPT ![r] = "await_set"]
    /\ hist' = IF Tracking
               THEN <<[by |-> r, pre |-> settings, upd |-> req[r].body.upd,
                       post |-> <<>>, got |-> <<>>]>>
               ELSE hist
    /\ UNCHANGED <<req, resp, data, live_data, allow, scope, mw, cvars>>

\* A POST /settings that answers with the fields it was sent.
handle_settings_return_echo(r) ==
    /\ At(r, "await_set")
    /\ Invoke(r, GwCall("get_settings_data", None))
    /\ Returns(r, SettingsResponse(req[r].body.upd))
    /\ hist' = IF hist # <<>> /\ hist[1].by = r
               THEN <<[hist[1] EXCEPT !.post = resp'[r].doc]>>
               ELSE hist
    /\ UNCHANGED <<req, data, live_data, settings, allow, scope, mw, cvars>>

\* POST /settings after the await: return Settings(**get_settings_data()).
handle_settings_return(r) ==
    /\ At(r, "await_set")
    /\ Invoke(r, GwCall("get_settings_data", None))
    /\ Returns(r, SettingsResponse(settings))
    /\ hist' = IF hist # <<>> /\ hist[1].by = r
               THEN <<[hist[1] EXCEPT !.post = resp'[r].doc]>>
               ELSE hist
    /\ UNCHANGED <<req, data, live_data, settings, allow, scope, mw, cvars>>

\* A get_settings that answers from a copy of the settings taken at start-up.
get_settings_cached(r) ==
    /\ Handling(r, {"GET /settings"})
    /\ Invoke(r, GwCall("get_settings_data", None))
    /\ Returns(r, SettingsResponse([k \in SettingsKeys |-> "a"]))
    /\ hist' = IF hist # <<>> THEN <<[hist[1] EXCEPT !.got = resp'[r].doc]>> ELSE hist
    /\ UNCHANGED <<req, data, live_data, settings, allow, scope, mw, cvars>>

\* GET /settings: return Settings(**get_settings_data()).
get_settings(r) ==
    /\ Handling(r, {"GET /settings"})
    /\ Invoke(r, GwCall("get_settings_data", None))
    /\ Returns(r, SettingsResponse(settings))
    /\ hist' = IF hist # <<>> THEN <<[hist[1] EXCEPT !.got = resp'[r].doc]>> ELSE hist
    /\ UNCHANGED <<req, data, live_data, settings, allow, scope, mw, cvars>>

Rest == <<req, data, live_data, settings, allow, scope, hist, mw, cvars>>

\* handle_share / handle_share_tiktok: handle_redirect(text, proxy) runs
\* links.run(text, "", proxy).
handle_share(r) ==
    LET e == req[r].body IN
    /\ Handling(r, ShareRoutes)
    /\ Awaits(r, [GwCall(IF IsTikTok(req[r].route) THEN "links_tiktok.run" ELSE "links.run",
                         e.text)
                    EXCEPT !.cookie = "", !.proxy = e.proxy])
    /\ UNCHANGED Rest

\* A handle_detail that joins the call another request already made for the
\* same item instead of making its own.
handle_detail_coalesced(r) ==
    LET e == req[r].body IN
    /\ Handling(r, DetailRoutes)
    /\ IF \E q \in DOMAIN pc \ {r} : pc[q] = "await" /\ req[q] = req[r]
       THEN pc' = [pc EXCEPT ![r] = "await"] /\ UNCHANGED <<calls, resp>>
       ELSE Awaits(r, [GwCall("_handle_detail", e.detail_id)
                         EXCEPT !.tiktok = IsTikTok(req[r].route), !.source = e.source,
                                !.cookie = e.cookie, !.proxy = e.proxy])
    /\ UNCHANGED Rest

\* APIServer.handle_detail(extract, tiktok) up to the await.
handle_detail(r) ==
    LET e == req[r].body IN
    /\ Handling(r, DetailRoutes)
    /\ Awaits(r, [GwCall("_handle_detail", e.detail_id)
                    EXCEPT !.tiktok = IsTikTok(req[r].route), !.source = e.source,
                           !.cookie = e.cookie, !.proxy = e.proxy])
    /\ UNCHANGED Rest

\* APIServer.handle_account(extract, tiktok) up to the await.
handle_account(r) ==
    LET e == req[r].body IN
    /\ Handling(r, AccountRoutes)
    /\ Awaits(r, [GwCall("deal_account_detail", e.sec_user_id)
                    EXCEPT !.tiktok = IsTikTok(req[r].route), !.source = e.source,
                           !.cookie = e.cookie, !.proxy = e.proxy,
                           !.cursor = e.cursor, !.count = e.count])
    /\ UNCHANGED Rest

\* A handle_mix without the isinstance(is_mix, bool) check.
handle_mix_unchecked(r) ==
    LET e == req[r].body
        p == generate_mix_params(e.mix_id, e.detail_id)
    IN
    /\ Handling(r, {"POST /douyin/mix"})
    /\ Awaits(r, [GwCall("deal_mix_detail", p[2])
                    EXCEPT !.is_mix = p[1], !.source = e.source,
                           !.cookie = e.cookie, !.proxy = e.proxy,
                           !.cursor = e.cursor, !.count = e.count])
    /\ UNCHANGED Rest

\* POST /douyin/mix up to the await: validate, then deal_mix_detail.
handle_mix(r) ==
    LET e == req[r].body
        p == generate_mix_params(e.mix_id, e.detail_id)
        is_mix == p[1]
        id_ == p[2]
    IN
    /\ Handling(r, {"POST /douyin/mix"})
    /\ IF ~IsBool(is_mix)
       THEN /\ Returns(r, DataResponse(MSG_PARAM, NoneV, ModelDump(e)))
            /\ UNCHANGED calls
       ELSE Awaits(r, [GwCall("deal_mix_detail", id_)
                         EXCEPT !.is_mix = is_mix, !.source = e.source,
                                !.cookie = e.cookie, !.proxy = e.proxy,
                                !.cursor = e.cursor, !.count = e.count])
    /\ UNCHANGED Rest

\* POST /tiktok/mix up to the await: deal_mix_detail(True, extract.mix_id, ...).
handle_mix_tiktok(r) ==
    LET e == req[r].body IN
    /\ Handling(r, {"POST /tiktok/mix"})
    /\ Awaits(r, [GwCall("deal_mix_detail", e.mix_id)
                    EXCEPT !.is_mix = PyTrue, !.source = e.source,
                           !.cookie = e.cookie, !.proxy = e.proxy,
                           !.cursor = e.cursor, !.count = e.count])
    /\ UNCHANGED Rest

\* The live routes, into APIServer.handle_live(extract, tiktok) up to its first await.
handle_live(r) ==
    LET e == req[r].body IN
    /\ Handling(r, LiveRoutes)
    /\ Awaits(r, IF IsTikTok(req[r].route)
                 THEN [GwCall("get_live_data_tiktok", e.room_id)
                         EXCEPT !.tiktok = TRUE, !.cookie = e.cookie, !.proxy = e.proxy]
                 ELSE [GwCall("get_live_data", e.web_rid)
                         EXCEPT !.cookie = e.cookie, !.proxy = e.proxy])
    /\ UNCHANGED Rest

\* POST /douyin/comment up to the await.
handle_comment(r) ==
    LET e == req[r].body IN
    /\ Handling(r, {"POST /douyin/comment"})
    /\ Awaits(r, [GwCall("comment_handle_single", e.detail_id)
                    EXCEPT !.source = e.source, !.cookie = e.cookie, !.proxy = e.proxy,
                           !.cursor = e.cursor, !.count = e.count])
    /\ UNCHANGED Rest

\* A handle_reply that passes count for cursor and cursor for count.
handle_reply_swapped(r) ==
    LET e == req[r].body IN
    /\ Handling(r, {"POST /douyin/reply"})
    /\ Awaits(r, [GwCall("reply_handle", e.detail_id)
                    EXCEPT !.ident2 = e.comment_id, !.source = e.source,
                           !.cookie = e.cookie, !.proxy = e.proxy,
                           !.cursor = e.count, !.count = e.cursor])
    /\ UNCHANGED Rest

\* POST /douyin/reply up to the await.
handle_reply(r) ==
    LET e == req[r].body IN
    /\ Handling(r, {"POST /douyin/reply"})
    /\ Awaits(r, [GwCall("reply_handle", e.detail_id)
                    EXCEPT !.ident2 = e.comment_id, !.source = e.source,
                           !.cookie = e.cookie, !.proxy = e.proxy,
                           !.cursor = e.cursor, !.count = e.count])
    /\ UNCHANGED Rest

\* APIServer.handle_search(extract) up to the await, for the four search routes.
handle_search(r) ==
    LET e == req[r].body IN
    /\ Handling(r, SearchRoutes)
    /\ Awaits(r, [GwCall("deal_search_data", e.keyword) EXCEPT !.source = e.source])
    /\ UNCHANGED Rest

\* The engine's call returns or raises; the handler builds its answer.  A
\* handler has no try/except: a raised fault leaves it.
gateway_return(r) ==
    /\ At(r, "await")
    /\ req[r].route \notin LiveRoutes
    /\ \E d \in GwResults(req[r].route) :
         /\ data' = [data EXCEPT ![r] = d]
         /\ Returns(r, IF d.t = "fault" THEN Raised
                       ELSE HandlerResult(req[r].route, req[r].body, d))
    /\ UNCHANGED <<calls, req, live_data, settings, allow, scope, hist, mw, cvars>>

\* "return [data]" of APIServer.handle_live.
handle_live_source(d) == ListV(<<IF d.t = "none" THEN None ELSE d.v[1]>>)

\* APIServer.handle_live after the live fetch: with source the list [data] goes
\* back to the route, otherwise extractor.run([data], None, "live") is awaited.
live_return(r) ==
    /\ At(r, "await")
    /\ req[r].route \in LiveRoutes
    /\ \E d \in LiveResults :
         /\ live_data' = [live_data EXCEPT ![r] = d]
         /\ IF d.t = "fault"
            THEN Returns(r, Raised) /\ UNCHANGED <<calls, data>>
            ELSE IF req[r].body.source
            THEN /\ data' = [data EXCEPT ![r] = handle_live_source(d)]
                 /\ Returns(r, handle_live_result(req[r].body, handle_live_source(d)))
                 /\ UNCHANGED calls
            ELSE /\ Invoke(r, [GwCall("extractor.run", None)
                                 EXCEPT !.tiktok = IsTikTok(req[r].route)])
                 /\ pc' = [pc EXCEPT ![r] = "await_extract"]
                 /\ UNCHANGED <<resp, data>>
    /\ UNCHANGED <<req, settings, allow, scope, hist, mw, cvars>>

\* extractor.run returns or raises; the live route builds its answer.
extractor_return(r) ==
    /\ At(r, "await_extract")
    /\ \E out \in ExtractorResults(live_data[r]) :
         /\ data' = [data EXCEPT ![r] = out]
         /\ Returns(r, IF out.t = "fault" THEN Raised
                       ELSE handle_live_result(req[r].body, out))
    /\ UNCHANGED <<calls, req, live_data, settings, allow, scope, hist, mw, cvars>>

\* A log_requests that answers a failure envelope when the handler raised.
log_requests_exit_swallow(r) ==
    /\ At(r, "exit")
    /\ mw' = [mw EXCEPT ![r] =
                [@ EXCEPT !.out = IF resp[r].kind = "Raised"
                                  THEN DataResponse(MSG_FAILED, NoneV, ParamsNone)
                                  ELSE resp[r],
                          !.sent = ~mw[r].closed]]
    /\ pc' = [pc EXCEPT ![r] = "done"]
    /\ UNCHANGED <<req, resp, calls, data, live_data, settings, allow, scope, hist, cvars>>

\* log_requests after call_next: it logs and returns the response, or logs and
\* re-raises; the server then sends the response.
log_requests_exit(r) ==
    /\ At(r, "exit")
    /\ mw' = [mw EXCEPT ![r] = [@ EXCEPT !.out = resp[r], !.sent = ~mw[r].closed]]
    /\ pc' = [pc EXCEPT ![r] = "done"]
    /\ UNCHANGED <<req, resp, calls, data, live_data, settings, allow, scope, hist, cvars>>

\* The client closes the connection while the engine's call is in flight.
\* Nothing in the handlers or in log_requests observes it: the awaited call
\* goes on, and the server has no one left to send the response to.
Disconnect(r) ==
    /\ r \in DOMAIN pc
    /\ pc[r] \in {"await", "await_extract"}
    /\ ~mw[r].closed
    /\ mw' = [mw EXCEPT ![r] = [@ EXCEPT !.closed = TRUE]]
    /\ UNCHANGED <<pc, req, resp, calls, data, live_data, settings, allow, scope, hist, cvars>>

\* The response is sent; the request's records are discarded.
Discard(r) ==
    /\ At(r, "done")
    /\ pc' = [pc EXCEPT ![r] = "idle"]
    /\ req' = [req EXCEPT ![r] = NoRequest]
    /\ resp' = [resp EXCEPT ![r] = NoResponse]
    /\ calls' = [calls EXCEPT ![r] = <<>>]
    /\ data' = [data EXCEPT ![r] = NoneV]
    /\ live_data' = [live_data EXCEPT ![r] = NoneV]
    /\ mw' = [mw EXCEPT ![r] = NoMiddleware]
    /\ UNCHANGED <<settings, allow, scope, hist, cvars>>

Next ==
    \E r \in AllSlots :
        \/ Arrive(r)
        \/ log_requests_enter(r)
        \/ log_requests_enter_unread(r)
        \/ token_dependency(r)
        \/ index(r)
        \/ handle_test(r)
        \/ handle_settings(r)
        \/ handle_settings_return(r)
        \/ get_settings(r)
        \/ handle_share(r)
        \/ handle_detail(r)
        \/ handle_account(r)
        \/ handle_mix(r)
        \/ handle_mix_tiktok(r)
        \/ handle_live(r)
        \/ handle_comment(r)
        \/ handle_reply(r)
        \/ handle_search(r)
        \/ gateway_return(r)
        \/ live_return(r)
        \/ extractor_return(r)
        \/ log_requests_exit(r)
        \/ Disconnect(r)
        \/ Discard(r)

Spec == Init /\ [][Next]_vars

\* The settings behaviours: only the token and settings routes are called.
NextSettings ==
    \E r \in AllSlots :
        \/ Arrive(r)
        \/ log_requests_enter(r)
        \/ token_dependency(r)
        \/ handle_test(r)
        \/ handle_settings(r)
        \/ handle_settings_return(r)
        \/ get_settings(r)
        \/ log_requests_exit(r)
        \/ Discard(r)

SpecSettings == InitSettings /\ [][NextSettings]_vars

\* The paired behaviours: two clients at once, on the routes that exist once
\* per platform; they stay connected and their bodies are readable.
InitPaired == InitCommon(AllSlots) /\ scope = "paired"

NextPaired ==
    \E r \in AllSlots :
        \/ Arrive(r)
        \/ log_requests_enter(r)
        \/ token_dependency(r)
        \/ handle_detail(r)
        \/ handle_account(r)
        \/ handle_mix(r)
        \/ handle_mix_tiktok(r)
        \/ handle_live(r)
        \/ gateway_return(r)
        \/ live_return(r)
        \/ extractor_return(r)
        \/ log_requests_exit(r)
        \/ Discard(r)

SpecPaired == InitPaired /\ [][NextPaired]_vars

\* The configuration is changed from outside the server: the credential
\* allow-value is set or cleared.
SetAllow ==
    /\ \E v \in {None, "secret", "guess"} : v # allow /\ allow' = v
    /\ UNCHANGED <<pc, req, resp, calls, data, live_data, settings, scope, hist, mw, cvars>>

\* The configuration behaviours: two clients at once on the token and settings
\* routes, while the allow-value changes.
InitialSettings == [k \in SettingsKeys |-> "a"]

InitConfig ==
    /\ InitCommon(AllSlots)
    /\ scope = "config"
    /\ settings = InitialSettings

NextConfig ==
    \/ SetAllow
    \/ \E r \in AllSlots :
        \/ Arrive(r)
        \/ log_requests_enter(r)
        \/ token_dependency(r)
        \/ handle_test(r)
        \/ handle_settings(r)
        \/ handle_settings_return(r)
        \/ get_settings(r)
        \/ log_requests_exit(r)
        \/ Discard(r)

SpecConfig == InitConfig /\ [][NextConfig]_vars

\* ------------------------------------------------ update_cookie.py

\* The longest cookie list.
MaxCookies == 3

\* Cookie names and values of the input; a cookie is a mapping with name and
\* value (domain and platform are not read by the conversion).
CookieNames == {"ttwid", "sessionid", "sessionid_ss", "odin_tt"}
CookieValues == {"v1", "v2"}
Cookies == [name : CookieNames, value : CookieValues]
CookieLists == UNION {[1..n -> Cookies] : n \in 0..MaxCookies}
Platforms == {"douyin", "tiktok", "kuaishou", None}

\* priority_cookies.get(platform, [...]): the priority names of a platform,
\* or the general ones.
priority_cookies(plat) ==
    CASE plat = "douyin" ->
            <<"sessionid", "sid_guard", "uid_tt", "sid_tt", "ttwid", "msToken">>
      [] plat = "tiktok" ->
            <<"sessionid_ss", "sessionid", "ttwid", "msToken", "tt_csstoken">>
      [] plat = "kuaishou" ->
            <<"userId", "kpn", "kpf", "did", "clientid", "kuaishou.server.webday7_st">>
      [] OTHER -> <<"sessionid", "sessionid_ss", "userid", "uid", "ttwid">>

\* A dict as the sequence of its <<key, value>> items in insertion order.
DictHas(dict, key) == \E i \in DOMAIN dict : dict[i][1] = key
DictGet(dict, key) == dict[CHOOSE i \in DOMAIN dict : dict[i][1] = key][2]

\* dict[key] = value: a key already there keeps its place.
DictSet(dict, key, value) ==
    IF DictHas(dict, key)
    THEN [i \in DOMAIN dict |-> IF dict[i][1] = key THEN <<key, value>> ELSE dict[i]]
    ELSE Append(dict, <<key, value>>)

\* dict[key] = value that leaves a key already there alone.
DictSetDefault(dict, key, value) ==
    IF DictHas(dict, key) THEN dict ELSE Append(dict, <<key, value>>)

\* del dict[key]
DictDel(dict, key) == SelectSeq(dict, LAMBDA item : item[1] # key)

\* for cookie in cookies: cookie_dict[cookie['name']] = cookie['value']
RECURSIVE FillDict(_, _, _)
FillDict(cks, i, dict) ==
    IF i > Len(cks) THEN dict
    ELSE FillDict(cks, i + 1, DictSet(dict, cks[i].name, cks[i].value))

\* The same loop keeping the first value of a name.
RECURSIVE FillDictFirst(_, _, _)
FillDictFirst(cks, i, dict) ==
    IF i > Len(cks) THEN dict
    ELSE FillDictFirst(cks, i + 1, DictSetDefault(dict, cks[i].name, cks[i].value))

\* for priority_name in current_priority: append and delete if in cookie_dict;
\* the result is <<header_parts, cookie_dict>>.
RECURSIVE TakePriority(_, _, _, _)
TakePriority(current_priority, i, header_parts, dict) ==
    IF i > Len(current_priority) THEN <<header_parts, dict>>
    ELSE LET priority_name == current_priority[i] IN
         IF DictHas(dict, priority_name)
         THEN TakePriority(current_priority, i + 1,
                           Append(header_parts,
                                  <<priority_name, "=", DictGet(dict, priority_name)>>),
                           DictDel(dict, priority_name))
         ELSE TakePriority(current_priority, i + 1, header_parts, dict)

\* for name, value in cookie_dict.items(): header_parts.append(f"{name}={value}")
RECURSIVE TakeRest(_, _, _)
TakeRest(dict, i, header_parts) ==
    IF i > Len(dict) THEN header_parts
    ELSE TakeRest(dict, i + 1, Append(header_parts, <<dict[i][1], "=", dict[i][2]>>))

\* "; ".join(header_parts), as the sequence of the pieces of the string.
RECURSIVE Join(_, _)
Join(header_parts, i) ==
    IF i > Len(header_parts) THEN <<>>
    ELSE IF i = Len(header_parts) THEN header_parts[i]
    ELSE header_parts[i] \o <<"; ">> \o Join(header_parts, i + 1)

\* A cookies_to_header_format where the first value of a repeated name stays.
cookies_to_header_format_first(cks, plat) ==
    IF ~Truthy(cks) THEN <<>>
    ELSE LET cookie_dict == FillDictFirst(cks.v, 1, <<>>)
             taken == TakePriority(priority_cookies(plat), 1, <<>>, cookie_dict)
         IN  Join(TakeRest(taken[2], 1, taken[1]), 1)

\* cookies_to_header_format(cookies, platform)
cookies_to_header_format(cks, plat) ==
    IF ~Truthy(cks) THEN <<>>
    ELSE LET cookie_dict == FillDict(cks.v, 1, <<>>)
             taken == TakePriority(priority_cookies(plat), 1, <<>>, cookie_dict)
         IN  Join(TakeRest(taken[2], 1, taken[1]), 1)

\* The script is started on a cookie list (or on none) and a platform.
InitCookies ==
    /\ InitCommon({1})
    /\ scope = "cookies"

\* main() up to the conversion: the cookies parsed and the platform chosen.
parse_netscape_cookies ==
    /\ scope = "cookies"
    /\ cookies = NoneV /\ ~cookie_header.set
    /\ cookies' \in {ListV(l) : l \in CookieLists}
    /\ platform' \in Platforms
    /\ UNCHANGED <<pc, req, resp, calls, data, live_data, settings, allow, scope, hist, mw,
                   cookie_header>>

\* cookie_header = cookies_to_header_format(cookies, platform)
convert ==
    /\ scope = "cookies"
    /\ ~cookie_header.set
    /\ cookie_header' = [set |-> TRUE, text |-> cookies_to_header_format(cookies, platform)]
    /\ UNCHANGED <<pc, req, resp, calls, data, live_data, settings, allow, scope, hist, mw,
                   cookies, platform>>

NextCookies == parse_netscape_cookies \/ convert

SpecCookies == InitCookies /\ [][NextCookies]_vars

\* ================================================================== claims

\* The request in slot r was sent with a credential the auth gate rejects.
Rejected(r) == pc[r] # "idle" /\ Gated(req[r].route) /\ ~is_valid_token(req[r].token)

\* The handler of the request in slot r has run past its validation.
Validated(r) == pc[r] \in {"await", "await_extract", "await_set", "exit", "done"}

\* The request in slot r is a POST /douyin/mix whose handler has validated it.
MixValidated(r) == req[r].route = "POST /douyin/mix" /\ Validated(r) /\ ~Rejected(r)

\* C1: a request on a gated route (every route but "GET /") whose credential the
\* auth gate rejects never reaches its handler: no engine operation and no
\* settings read or update is invoked at any point, and once handled its
\* response is the 403 HTTPException with the fixed message.
C1_RejectedNeverReachesHandler ==
    \A r \in Slots :
        Rejected(r) =>
            /\ calls[r] = <<>>
            /\ pc[r] \in {"mw", "dep", "exit", "done"}
            /\ pc[r] \in {"exit", "done"} =>
                 /\ resp[r].kind = "HTTPException"
                 /\ resp[r].status = 403
                 /\ resp[r].message = MSG_AUTH

\* A POST /douyin/detail with a mismatching credential has been answered.
C1_Witness ==
    \E r \in Slots :
        /\ At(r, "done")
        /\ Rejected(r)
        /\ req[r].route = "POST /douyin/detail"
        /\ req[r].token = "guess"
        /\ resp[r].status = 403

\* C2: generate_mix_params yields the sentinel when both identifiers are
\* supplied and when neither is; POST /douyin/mix with both mix_id and
\* detail_id supplied answers 'parameters invalid' with data = null and calls
\* no engine operation.
C2_BothOrNeitherIsSentinel ==
    \A r \in Slots :
        MixValidated(r) =>
            LET m == req[r].body.mix_id
                d == req[r].body.detail_id
            IN  (TruthyStr(m) <=> TruthyStr(d)) =>
                    /\ calls[r] = <<>>
                    /\ resp[r].message = MSG_PARAM
                    /\ resp[r].data = NoneV

\* C3: generate_mix_params returns <<True, mix_id>> if mix_id is present (a
\* non-empty string), otherwise <<False, detail_id>> if detail_id is present,
\* otherwise the sentinel; the identifier handed on is the one the boolean
\* names.  Seen in what handle_mix passes to deal_mix_detail.
C3_MixParamsShape ==
    \A r \in Slots :
        MixValidated(r) =>
            LET m == req[r].body.mix_id
                d == req[r].body.detail_id
            IN  /\ TruthyStr(m) =>
                     /\ Len(calls[r]) = 1
                     /\ calls[r][1].is_mix = PyTrue
                     /\ calls[r][1].ident = m
                /\ (~TruthyStr(m) /\ TruthyStr(d)) =>
                     /\ Len(calls[r]) = 1
                     /\ calls[r][1].is_mix = PyFalse
                     /\ calls[r][1].ident = d
                /\ (~TruthyStr(m) /\ ~TruthyStr(d)) =>
                     /\ calls[r] = <<>>
                     /\ resp[r].message = MSG_PARAM

\* A POST /douyin/mix with both identifiers has fetched the collection mix_id.
C3_Witness ==
    \E r \in Slots :
        /\ MixValidated(r)
        /\ At(r, "done")
        /\ req[r].body.mix_id = "123"
        /\ req[r].body.detail_id = "456"
        /\ calls[r][1].is_mix = PyTrue
        /\ calls[r][1].ident = "123"

\* C4: in POST /douyin/mix, when the validator returns the sentinel the handler
\* returns a normal envelope (status 200) with the 'parameters invalid'
\* message, data = null and params = the request mapping, without calling
\* deal_mix_detail; the engine is called only after the validator returned a
\* boolean first component.
C4_SentinelIsResolvedLocally ==
    \A r \in Slots :
        MixValidated(r) =>
            LET p == generate_mix_params(req[r].body.mix_id, req[r].body.detail_id)
            IN  /\ ~IsBool(p[1]) =>
                     /\ calls[r] = <<>>
                     /\ pc[r] \in {"exit", "done"}
                     /\ resp[r].kind = "DataResponse"
                     /\ resp[r].status = 200
                     /\ resp[r].message = MSG_PARAM
                     /\ resp[r].data = NoneV
                     /\ resp[r].params = <<req[r].body>>
                /\ calls[r] # <<>> => IsBool(p[1])

\* A POST /douyin/mix with neither identifier has been answered.
C4_Witness ==
    \E r \in Slots :
        /\ MixValidated(r)
        /\ At(r, "done")
        /\ req[r].body.mix_id = None
        /\ req[r].body.detail_id = None
        /\ resp[r].message = MSG_PARAM

\* The handler of the request in slot r has returned or raised.
Handled(r) == pc[r] \in {"exit", "done"} /\ ~Rejected(r)

\* C5 as stated: on each of the four search routes an empty list from the
\* engine gives the 'empty result' message with data = null, and any
\* non-empty list gives the default 'success' message with that list as data.
C5_NonEmptyListIsSuccess ==
    \A r \in Slots :
        (Handled(r) /\ req[r].route \in SearchRoutes /\ data[r].t = "list") =>
            /\ Len(data[r].v) = 0 =>
                 resp[r].message = MSG_EMPTY /\ resp[r].data = NoneV
            /\ Len(data[r].v) > 0 =>
                 resp[r].message = MSG_SUCCESS /\ resp[r].data = data[r]

\* C5 as amended: on each of the four search routes a list with no non-empty
\* record (the empty list, or a list of empty records only) gives the 'empty
\* result' message with data = null, and a list holding at least one non-empty
\* record gives the default 'success' message with that list as data; the
\* message tells the two apart.
C5_ListWithARecordIsSuccess ==
    \A r \in Slots :
        (Handled(r) /\ req[r].route \in SearchRoutes /\ data[r].t = "list") =>
            LET l == data[r].v IN
            /\ (\A i \in 1..Len(l) : l[i] = EmptyRec) =>
                 /\ resp[r].kind = "DataResponse"
                 /\ resp[r].message = MSG_EMPTY
                 /\ resp[r].data = NoneV
            /\ (\E i \in 1..Len(l) : l[i] # EmptyRec) =>
                 /\ resp[r].kind = "DataResponse"
                 /\ resp[r].message = MSG_SUCCESS
                 /\ resp[r].data = ListV(l)
            /\ resp[r].message \in {MSG_EMPTY, MSG_SUCCESS}
            /\ MSG_EMPTY # MSG_SUCCESS

\* A search whose engine call returned a list holding one empty record has
\* been answered 'empty result'.
C5_Witness ==
    \E r \in Slots :
        /\ pc[r] = "done"
        /\ req[r].route = "POST /douyin/search/video"
        /\ data[r] = ListV(<<EmptyRec>>)
        /\ resp[r].message = MSG_EMPTY

\* The list-returning operations.
ListRoutes == AccountRoutes \cup MixRoutes \cup CommentRoutes \cup SearchRoutes

\* C6: for account, mix, comment, reply and search, when the engine completes
\* and returns no records (the empty list) the envelope carries the 'empty
\* result' message and not the generic failure; the 'failed' message appears
\* only when the engine could not complete the request (it returned None).
C6_EmptyListIsEmptyResult ==
    \A r \in Slots :
        (Handled(r) /\ req[r].route \in ListRoutes /\ calls[r] # <<>>) =>
            /\ data[r] = ListV(<<>>) =>
                 resp[r].message = MSG_EMPTY /\ resp[r].message # MSG_FAILED
            /\ (resp[r].kind = "DataResponse" /\ resp[r].message = MSG_FAILED) =>
                 data[r].t = "none"

\* C7: in every DataResponse of a business route the data is non-null exactly
\* when the operation succeeded: never the success message with data = null,
\* never the failure message with non-null data.
C7_DataMatchesMessage ==
    \A r \in Slots :
        (Handled(r) /\ req[r].route \in BusinessRoutes /\ resp[r].kind = "DataResponse") =>
            /\ resp[r].message = MSG_SUCCESS => resp[r].data # NoneV
            /\ resp[r].message = MSG_FAILED => resp[r].data = NoneV

\* The engine call (or the extractor call) of the request in slot r raised.
Faulted(r) == data[r].t = "fault" \/ live_data[r].t = "fault"

\* C8: when the engine operation of a business route raises a fault, the
\* request still ends with a normal failure envelope (status 200, the failure
\* message, data = null); the fault does not leave the handler and the
\* middleware as a raw error.
C8_FaultBecomesFailureEnvelope ==
    \A r \in Slots :
        (pc[r] = "done" /\ req[r].route \in BusinessRoutes /\ Faulted(r)) =>
            /\ resp[r].kind \in {"DataResponse", "UrlResponse"}
            /\ resp[r].status = 200
            /\ resp[r].message \in {MSG_FAILED, MSG_URL_FAILED}
            /\ resp[r].data = NoneV

\* C9: on both live routes and for both values of source: when the live fetch
\* returns a record the envelope is success with the record (source) or its
\* normalized form (not source) as data; when it returns None the envelope is
\* the failure envelope with data = null.
C9_LiveEnvelope ==
    \A r \in Slots :
        (Handled(r) /\ req[r].route \in LiveRoutes /\ resp[r].kind = "DataResponse") =>
            /\ live_data[r].t = "rec" =>
                 /\ resp[r].message = MSG_SUCCESS
                 /\ resp[r].data =
                        RecV(IF req[r].body.source THEN live_data[r].v[1]
                             ELSE Normalized(live_data[r].v[1]))
            /\ live_data[r].t = "none" =>
                 /\ resp[r].message = MSG_FAILED
                 /\ resp[r].data = NoneV

\* An update that sends exactly one key.
OneKey(u) == Cardinality({k \in SettingsKeys : u[k] # None}) = 1

\* C10: after a POST /settings that sends one key, the POST's own response and
\* the response of a GET /settings that follows with no other update in
\* between are the full settings document with that key at the posted value
\* and every other key at the value it had before the POST.
C10_SettingsRoundTrip ==
    (hist # <<>> /\ OneKey(hist[1].upd)) =>
        LET h == hist[1] IN
        /\ h.post # <<>> =>
             \A k \in SettingsKeys :
                h.post[1][k] = IF h.upd[k] # None THEN h.upd[k] ELSE h.pre[k]
        /\ h.got # <<>> =>
             \A k \in SettingsKeys :
                h.got[1][k] = IF h.upd[k] # None THEN h.upd[k] ELSE h.pre[k]

\* A POST /settings changed one key, was answered, and a GET /settings
\* followed and was answered.
C10_Witness ==
    /\ hist # <<>>
    /\ OneKey(hist[1].upd)
    /\ hist[1].post # <<>>
    /\ hist[1].got # <<>>
    /\ \E k \in SettingsKeys : hist[1].upd[k] # None /\ hist[1].upd[k] # hist[1].pre[k]
    /\ \E r \in Slots : pc[r] = "done" /\ req[r].route = "GET /settings"

\* C11 as stated: the two routes of a paired operation (detail, account, mix,
\* live) behave alike: for the same request fields they validate alike (both
\* call the engine or neither does), and for the same engine result they answer
\* with the same message and data; the engine call of each carries the platform
\* of its route.
C11_PairedRoutesAgree ==
    \A r1 \in Slots, r2 \in Slots :
        (/\ pc[r1] = "done" /\ pc[r2] = "done"
         /\ req[r1].route \in PairedRoutes
         /\ req[r2].route = Twin(req[r1].route)
         /\ req[r1].body = req[r2].body)
        => /\ (calls[r1] = <<>>) <=> (calls[r2] = <<>>)
           /\ calls[r1] # <<>> => calls[r1][1].tiktok = IsTikTok(req[r1].route)
           /\ (data[r1] = data[r2] /\ live_data[r1] = live_data[r2]) =>
                /\ resp[r1].message = resp[r2].message
                /\ resp[r1].data = resp[r2].data

\* C12: every envelope of a business route (success, empty result, parameters
\* invalid, failure, and the url envelope of share) carries as params the dump
\* of the request it answers, and that is also what leaves the server.
C12_ParamsEchoRequest ==
    \A r \in Slots :
        (/\ pc[r] \in {"exit", "done"}
         /\ req[r].route \in BusinessRoutes
         /\ resp[r].kind \in {"DataResponse", "UrlResponse"})
        => /\ resp[r].params = ModelDump(req[r].body)
           /\ pc[r] = "done" => mw[r].out.params = ModelDump(req[r].body)

\* A failure envelope went out for a request that set cookie and proxy.
C12_Witness ==
    \E r \in Slots :
        /\ pc[r] = "done"
        /\ req[r].route = "POST /douyin/account"
        /\ req[r].body.cookie = "ck"
        /\ resp[r].message = MSG_FAILED
        /\ resp[r].params = ModelDump(req[r].body)

\* C13: GET /token with an accepted credential answers 'verified' with data
\* null and no params and calls nothing; with a rejected credential it answers
\* the 403 HTTPException, and so does every other gated route for it.
C13_TokenRoute ==
    \A r \in Slots :
        (pc[r] \in {"exit", "done"} /\ Gated(req[r].route)) =>
            IF is_valid_token(req[r].token)
            THEN req[r].route = "GET /token" =>
                    /\ resp[r] = DataResponse(MSG_VERIFIED, NoneV, ParamsNone)
                    /\ calls[r] = <<>>
            ELSE resp[r] = HTTPException(403, MSG_AUTH)

\* GET /token was answered 'verified' for the configured credential.
C13_Witness ==
    \E r \in Slots :
        /\ pc[r] = "done"
        /\ req[r].route = "GET /token"
        /\ allow = "secret" /\ req[r].token = "secret"
        /\ resp[r].message = MSG_VERIFIED

\* The identifier the request in slot r asks the engine about.
OwnIdent(r) ==
    LET e == req[r].body IN
    CASE req[r].route \in DetailRoutes -> e.detail_id
      [] req[r].route \in AccountRoutes -> e.sec_user_id
      [] req[r].route = "POST /douyin/mix" -> IF TruthyStr(e.mix_id) THEN e.mix_id ELSE e.detail_id
      [] req[r].route = "POST /tiktok/mix" -> e.mix_id
      [] req[r].route = "POST /douyin/live" -> e.web_rid
      [] OTHER -> e.room_id

\* What the request in slot r is answered, from its own fields and from what
\* its own calls returned.
OwnAnswer(r) ==
    IF calls[r] = <<>> THEN DataResponse(MSG_PARAM, NoneV, ModelDump(req[r].body))
    ELSE IF data[r].t = "fault" \/ live_data[r].t = "fault" THEN Raised
    ELSE IF req[r].route \in LiveRoutes THEN handle_live_result(req[r].body, data[r])
    ELSE HandlerResult(req[r].route, req[r].body, data[r])

\* C14: with two requests handled at once, in any interleaving, each request
\* past its validation has made its own engine call, about its own identifier
\* (none is saved because the other asked for the same item), and each answer
\* is the one its own fields and its own engine result give.
C14_RequestsAreIndependent ==
    \A r \in Slots :
        /\ (pc[r] \in {"await", "await_extract"}) =>
                calls[r] # <<>> /\ calls[r][1].ident = OwnIdent(r)
        /\ (pc[r] \in {"exit", "done"}) =>
                /\ resp[r] = OwnAnswer(r)
                /\ calls[r] # <<>> => calls[r][1].ident = OwnIdent(r)

\* Two requests for the same item are in flight at once, each with its call,
\* and one of them then gets another result than the other.
C14_Witness ==
    /\ Slots = AllSlots
    /\ req[1] = req[2]
    /\ req[1].route = "POST /douyin/detail"
    /\ pc[1] = "done" /\ pc[2] = "await"
    /\ Len(calls[1]) = 1 /\ Len(calls[2]) = 1
    /\ resp[1].message = MSG_FAILED

\* The settings document as the last completed update left it.
LastWritten ==
    IF hist = <<>> THEN InitialSettings
    ELSE set_settings_data(hist[1].pre, hist[1].upd)

\* C15: the configuration is read when a request is handled, never from a
\* copy: every settings answer (of POST /settings and of GET /settings) is the
\* document as the update that completed last left it, also when two updates
\* interleave, and the auth gate decides by the allow-value current at that
\* moment.
C15_ConfigurationIsReadPerRequest ==
    [][\A r \in AllSlots :
          /\ (pc[r] \in {"handler", "await_set"} /\ pc'[r] = "exit"
                    /\ resp'[r].kind = "Settings")
                => resp'[r].doc = <<LastWritten>>
          /\ (pc[r] = "dep" /\ pc'[r] # "dep")
                => ((pc'[r] = "handler") <=> (allow = None \/ req[r].token = allow))
      ]_vars

\* Two updates interleaved: the first request's answer, given after the second
\* request's write, shows the second's value and not its own; the allow-value
\* has changed meanwhile.
C15_Witness ==
    /\ Slots = AllSlots
    /\ hist # <<>> /\ hist[1].by = 2
    /\ pc[1] = "done"
    /\ req[1].route = "POST /settings"
    /\ req[1].body.upd["cookie"] = "b"
    /\ req[2].body.upd["cookie"] = "a"
    /\ resp[1].doc = <<settings>>
    /\ settings["cookie"] = "a"
    /\ allow = "guess"

\* The identifier of a live request that counts for the platform of its route.
LiveIdent(r) ==
    IF IsTikTok(req[r].route) THEN req[r].body.room_id ELSE req[r].body.web_rid

\* C16 as stated: on both live routes a request without the identifier of the
\* route's platform (web_rid for douyin, room_id for tiktok) is answered
\* 'parameters invalid' and the live fetch of the engine is not called.
C16_LiveIdentifierIsChecked ==
    \A r \in Slots :
        (/\ req[r].route \in LiveRoutes
         /\ Validated(r) /\ ~Rejected(r)
         /\ ~TruthyStr(LiveIdent(r)))
        => /\ calls[r] = <<>>
           /\ resp[r].message = MSG_PARAM

\* The routes whose request carries cursor and count.
PagedRoutes == AccountRoutes \cup MixRoutes \cup CommentRoutes

\* C17: on the account, mix, comment and reply routes the engine is called
\* with the cursor and count of the request, and with its source flag, cookie
\* and proxy, none replaced, dropped or swapped.
C17_PaginationIsForwarded ==
    \A r \in Slots :
        (req[r].route \in PagedRoutes /\ calls[r] # <<>>) =>
            LET c == calls[r][1]
                e == req[r].body
            IN  /\ c.cursor = e.cursor
                /\ c.count = e.count
                /\ c.source = e.source
                /\ c.cookie = e.cookie
                /\ c.proxy = e.proxy

\* A reply request with its own cursor, count, cookie and proxy is in flight.
C17_Witness ==
    \E r \in Slots :
        /\ At(r, "await")
        /\ req[r].route = "POST /douyin/reply"
        /\ req[r].body.cursor = 7 /\ req[r].body.count = 5
        /\ req[r].body.cookie = "ck" /\ req[r].body.source
        /\ calls[r][1].cursor = 7 /\ calls[r][1].count = 5

\* C18 as stated: once the connection of a request is closed while its engine
\* call is in flight, the call is abandoned: the handler never resumes to
\* build an answer, and nothing is sent for the request.
C18_ClosedCallIsAbandoned ==
    \A r \in Slots :
        mw[r].closed => pc[r] \notin {"exit", "done"} /\ ~mw[r].sent

\* C19: generate_mix_params treats an empty identifier like an absent one:
\* with mix_id empty or absent and detail_id non-empty it gives
\* <<False, detail_id>>, with both empty or absent the sentinel, and never an
\* empty identifier; handle_mix acts on exactly that result.
C19_EmptyIdentifierIsAbsent ==
    \A r \in Slots :
        MixValidated(r) =>
            LET m == req[r].body.mix_id
                d == req[r].body.detail_id
                p == generate_mix_params(m, d)
            IN  /\ (m \in {None, ""} /\ d \notin {None, ""}) => p = <<PyFalse, d>>
                /\ (m \in {None, ""} /\ d \in {None, ""}) => p = <<None, None>>
                /\ p[2] # ""
                /\ IF p[1] = None THEN calls[r] = <<>>
                   ELSE calls[r][1].is_mix = p[1] /\ calls[r][1].ident = p[2]

\* A POST /douyin/mix with mix_id = "" and a detail_id is handled as a detail
\* request.
C19_Witness ==
    \E r \in Slots :
        /\ MixValidated(r)
        /\ pc[r] = "await"
        /\ req[r].body.mix_id = ""
        /\ req[r].body.detail_id = "456"
        /\ calls[r] # <<>>
        /\ calls[r][1].is_mix = PyFalse
        /\ calls[r][1].ident = "456"

\* C20: log_requests awaits call_next exactly once for every request, also
\* when reading the body of a POST raised, and what leaves it is what the
\* handler returned or raised: a response unchanged, an exception re-raised.
C20_MiddlewareIsTransparent ==
    \A r \in Slots :
        /\ pc[r] \in {"idle", "mw"} => mw[r].call_next = 0
        /\ pc[r] \notin {"idle", "mw"} => mw[r].call_next = 1
        /\ pc[r] = "done" => mw[r].out = resp[r]

\* The body of a POST could not be read, the handler ran and raised, and the
\* exception left log_requests.
C20_Witness ==
    \E r \in Slots :
        /\ pc[r] = "done"
        /\ mw[r].body_read = "failed"
        /\ mw[r].call_next = 1
        /\ resp[r].kind = "Raised"
        /\ mw[r].out.kind = "Raised"

\* The header read back: the <<name, value>> of each "name=value" piece, in
\* the order of the header.
HeaderItems(text) ==
    [k \in 1..((Len(text) + 1) \div 4) |-> <<text[4 * k - 3], text[4 * k - 1]>>]

\* The header is "name=value" pieces separated by "; ".
HeaderWellFormed(text) ==
    /\ Len(text) % 4 = 3
    /\ \A k \in 1..((Len(text) + 1) \div 4) :
          /\ text[4 * k - 2] = "="
          /\ 4 * k <= Len(text) => text[4 * k] = "; "

\* Place of a name in a sequence of names, 0 if it is not there.
IndexIn(names, name) ==
    IF \E i \in DOMAIN names : names[i] = name
    THEN CHOOSE i \in DOMAIN names : names[i] = name
    ELSE 0

\* C21: the header of cookies_to_header_format holds every distinct cookie
\* name of the input exactly once, with the value of the name's last
\* occurrence; the names of the platform's priority list come first, in the
\* order of that list, then the other names in the order of their first
\* occurrence; an empty or missing cookie list gives the empty string.
C21_HeaderOfCookies ==
    cookie_header.set =>
        LET text == cookie_header.text
            cks == cookies.v
            items == HeaderItems(text)
            prio == priority_cookies(platform)
            names == {cks[i].name : i \in DOMAIN cks}
            FirstAt(name) == CHOOSE i \in DOMAIN cks :
                              /\ cks[i].name = name
                              /\ \A j \in 1..(i - 1) : cks[j].name # name
            LastAt(name) == CHOOSE i \in DOMAIN cks :
                              /\ cks[i].name = name
                              /\ \A j \in (i + 1)..Len(cks) : cks[j].name # name
            Before(a, b) ==
                IF IndexIn(prio, a) > 0
                THEN IndexIn(prio, b) = 0 \/ IndexIn(prio, a) < IndexIn(prio, b)
                ELSE IndexIn(prio, b) = 0 /\ FirstAt(a) < FirstAt(b)
        IN  IF cookies.t = "none" \/ cks = <<>>
            THEN text = <<>>
            ELSE /\ HeaderWellFormed(text)
                 /\ \A name \in names :
                       Cardinality({k \in DOMAIN items : items[k][1] = name}) = 1
                 /\ \A k \in DOMAIN items :
                       /\ items[k][1] \in names
                       /\ items[k][2] = cks[LastAt(items[k][1])].value
                 /\ \A j \in DOMAIN items, k \in DOMAIN items :
                       j < k => Before(items[j][1], items[k][1])

\* A list with a repeated priority name after another name was converted: the
\* priority name leads with its last value.
C21_Witness ==
    /\ cookie_header.set
    /\ platform = "douyin"
    /\ cookies = ListV(<<[name |-> "odin_tt", value |-> "v1"],
                         [name |-> "sessionid", value |-> "v1"],
                         [name |-> "sessionid", value |-> "v2"]>>)
    /\ cookie_header.text = <<"sessionid", "=", "v2", "; ", "odin_tt", "=", "v1">>

====
